---------------------------- MODULE Spec2Model ----------------------------
(***************************************************************************)
(* Flock: the per-invocation dispatcher of one deployed cloud function     *)
(* (flock-function/src/aws/actor.rs) together with the window arena, the   *)
(* processed-window set and the object-store state backend it drives.      *)
(*                                                                         *)
(* One behaviour is the life of ONE function process: its execution        *)
(* context is fixed at deployment (Init), the arena and PROCESSED_WINDOWS  *)
(* live across invocations, and every step is either one whole handler     *)
(* invocation or an upstream sibling persisting a partial to S3.           *)
(*                                                                         *)
(* Smaller specifications follow the stage model, each over a variable     *)
(* of its own: SpecDispatch (the tasks of one call of                      *)
(* invoke_next_functions), SpecPlan (the leaves of the subplan),           *)
(* SpecFlow (build_context), SpecCoordinator (the S3 benchmark client),    *)
(* SpecProcess (the once-only context of the generic function),            *)
(* SpecIngest (the source function), SpecCodec (compress and decompress)   *)
(* and SpecBucket (the S3 helpers).  SpecRecovery runs the stage model on  *)
(* the packets of one window under fairness.                               *)
(***************************************************************************)
EXTENDS Integers, Sequences, FiniteSets, TLC

(***************************************************************************)
(* Bounds of the model.                                                    *)
(***************************************************************************)
MaxSeqLen == 2
MaxShuffle == 2
MaxParts == 2
RingLen == 2

(***************************************************************************)
(* Values.                                                                 *)
(***************************************************************************)
None == 0

Qids == {"q1"}

Ready == "Ready"
NotReady == "NotReady"
Processed == "Processed"

\* The sequence f[1], ..., f[n] of a function f on 1..n.
RECURSIVE ToSeq(_, _)
ToSeq(f, n) == IF n = 0 THEN <<>> ELSE Append(ToSeq(f, n - 1), f[n])

RECURSIVE Flatten(_)
Flatten(ss) == IF ss = <<>> THEN <<>> ELSE Head(ss) \o Flatten(Tail(ss))

VARIABLES
    ctx,        \* the ExecutionContext of this function (fixed at deployment)
    upstream,   \* what feeds this function: packets per window, shuffled or not
    arena,      \* the window arena of the process
    processed,  \* PROCESSED_WINDOWS
    store,      \* partials persisted by upstream siblings under this stage's prefix
    last,       \* what the latest handler invocation did
    log,        \* per window: the statuses its inline deliveries obtained, in
                \* order, a run of equal statuses written once
    readies,    \* per window: how many inline deliveries obtained Ready
    got,        \* per window: the seq_nums delivered inline so far
    effective,  \* the events whose handling dispatched to a successor
    dispatch,   \* one invoke_next_functions call seen task by task
    plan,       \* the leaves of the subplan and what each one is bound to
    flow,       \* the QueryFlow under construction by build_context
    coordinator, \* the client of the S3 benchmark
    process,    \* the process of the generic function: INIT, EXECUTION_CONTEXT
    ingest,     \* the source function: the events it was invoked with, its answers
    codec,      \* a byte string on its way through compress and decompress
    bucket,     \* an S3 bucket and the calls of s3.rs in progress on it
    siblings    \* one window sent to an aggregator: its id, the invocations lost

stageVars == <<ctx, upstream, arena, processed, store, last, log, readies, got, effective>>

serviceVars == <<ingest, codec, bucket, siblings>>

componentVars == <<dispatch, plan, flow, coordinator, process, serviceVars>>

ServicesIdle ==
    /\ ingest = None
    /\ codec = None
    /\ bucket = None
    /\ siblings = None

vars == <<stageVars, componentVars>>

(***************************************************************************)
(* ExecutionContext: name, successor, state backend.  The name is the      *)
(* dash-separated list <query code>-<plan index>[-<group index>]; the      *)
(* plan is external and enters only through is_shuffling.                  *)
(***************************************************************************)
Names == {<<"code", 1>>, <<"code", 1, 0>>}

NextKinds == {"Sink", "Lambda", "Group"}

Backends == {"HashMap", "S3"}

Contexts ==
    {c \in [name : Names, next : NextKinds, sink : {"Blackhole", "S3Sink"},
            shuffling : BOOLEAN, backend : Backends] :
        /\ c.next # "Sink" => c.sink = "Blackhole"
        /\ c.next # "Group" => ~c.shuffling}

\* The generic function of src/function (lambda.rs) answers its caller with
\* the output payload; its successor is a CloudFunction::Solo.
GenericContext ==
    [name |-> <<"code", 1>>, next |-> "Solo", sink |-> "Blackhole",
     shuffling |-> FALSE, backend |-> "HashMap"]

is_aggregate(c) == Len(c.name) - 1 = 2

\* Mutant of UsesObjectStore: every backend is taken for the object store.
UsesObjectStoreAlways(c) == TRUE

\* state_backend.as_any().downcast_ref::<S3StateBackend>().is_some()
UsesObjectStore(c) == c.backend = "S3"

is_shuffling(c) == c.shuffling

PlanIndex(c) == c.name[2]

(***************************************************************************)
(* Payload accessors.                                                      *)
(***************************************************************************)
get_shuffle_id(ev) == IF ev.shuffle_id = None THEN 1 ELSE ev.shuffle_id

get_window_id(ev) == <<ev.uuid.qid, get_shuffle_id(ev)>>

\* Mutant of infer_s3_mode: the s3_bucket / s3_key entries are not seen.
infer_s3_mode_never(meta) == FALSE

infer_s3_mode(meta) == meta.s3

\* The metadata map of a packet, as far as the dispatcher reads it: whether
\* it holds s3_bucket and s3_key, and the value under invocation_type
\* ("absent" when the map has no such key).
InvocationTypes == {"absent", "async", "sync"}

Metadata(s3, t) == [s3 |-> s3, invocation_type |-> t]

NoMetadata == Metadata(FALSE, "absent")

\* Mutant of infer_invocation_type: only the value "sync" is synchronous.
infer_invocation_type_only_sync(meta) == meta.invocation_type = "sync"

infer_invocation_type(meta) == meta.invocation_type # "async"

\* FLOCK_LAMBDA_SYNC_CALL / FLOCK_LAMBDA_ASYNC_CALL
invocation_type(meta) ==
    IF infer_invocation_type(meta) THEN "RequestResponse" ELSE "Event"

\* Mutant of s3_key_prefix: the shuffle id of the event is not used.
s3_key_prefix_unshuffled(c, ev) == <<PlanIndex(c), 1>>

s3_key_prefix(c, ev) == <<PlanIndex(c), get_shuffle_id(ev)>>

(***************************************************************************)
(* The packets of the windows this function can be sent.  A packet is      *)
(* identified by (qid, shuffle_id, seq_num); redelivery repeats it.        *)
(***************************************************************************)
Packet(q, k, i, n, meta) ==
    [uuid |-> [qid |-> q, seq_num |-> i, seq_len |-> n],
     shuffle_id |-> k,
     data |-> << <<q, k, i>> >>,
     metadata |-> meta]

to_record_batch(p) == <<p.data, <<>> >>

(***************************************************************************)
(* The payload behind the s3_bucket / s3_key coordinates of an event.      *)
(***************************************************************************)
read_payload_from_s3(ev) ==
    [uuid |-> ev.uuid, shuffle_id |-> ev.shuffle_id,
     data |-> << <<"s3obj", ev.uuid.seq_num>> >>, metadata |-> ev.metadata]

(***************************************************************************)
(* Window arena: WindowId -> [bitmap, partitions].                         *)
(***************************************************************************)
NewWindow(n) ==
    [bitmap |-> ToSeq([i \in 1..n |-> FALSE], n),
     partitions |-> ToSeq([i \in 1..n |-> <<>>], n)]

ArenaPut(ar, wid, w) == [x \in DOMAIN ar \cup {wid} |-> IF x = wid THEN w ELSE ar[x]]

AllSet(bitmap) == \A i \in DOMAIN bitmap : bitmap[i]

\* Mutant of Absorb: a packet is appended again although its bit is set.
AbsorbAgain(w, p) ==
    LET i == p.uuid.seq_num + 1
    IN  [bitmap |-> [w.bitmap EXCEPT ![i] = TRUE],
         partitions |-> [w.partitions EXCEPT ![i] = @ \o to_record_batch(p)[1]]]

Absorb(w, p) ==
    LET i == p.uuid.seq_num + 1
    IN  IF w.bitmap[i]
        THEN w
        ELSE [bitmap |-> [w.bitmap EXCEPT ![i] = TRUE],
              partitions |-> [w.partitions EXCEPT ![i] = @ \o to_record_batch(p)[1]]]

ArenaCollect(ar, proc, p) ==
    LET wid == get_window_id(p)
    IN  IF wid \in proc
        THEN [arena |-> ar, status |-> Processed]
        ELSE LET w == IF wid \in DOMAIN ar THEN ar[wid] ELSE NewWindow(p.uuid.seq_len)
                 w2 == Absorb(w, p)
             IN  [arena |-> ArenaPut(ar, wid, w2),
                  status |-> IF AllSet(w2.bitmap) THEN Ready ELSE NotReady]

ArenaTake(ar, wid) ==
    [arena |-> [x \in DOMAIN ar \ {wid} |-> ar[x]],
     partitions |-> ar[wid].partitions]

NoWindow == [bitmap |-> <<>>, partitions |-> <<>>]

LookupWindow(ar, wid) == IF wid \in DOMAIN ar THEN ar[wid] ELSE NoWindow

get_bitmap(ar, wid) == LookupWindow(ar, wid).bitmap

is_complete(ar, wid) == wid \in DOMAIN ar /\ AllSet(ar[wid].bitmap)

(***************************************************************************)
(* Object-store state backend.  An object is [bucket, key, body] with key  *)
(* <<plan index, shuffle id, seq_num>>; a negative seq_num marks an empty  *)
(* placeholder.                                                            *)
(***************************************************************************)
Abs(x) == IF x < 0 THEN -x ELSE x

new_s3_keys(st, qid, prefix, bitmap) ==
    {o.key : o \in {x \in st : /\ x.bucket = qid
                                /\ <<x.key[1], x.key[2]>> = prefix
                                /\ Abs(x.key[3]) + 1 \in DOMAIN bitmap
                                /\ ~bitmap[Abs(x.key[3]) + 1]}}

RECURSIVE StateRead(_, _, _)
StateRead(st, qid, keys) ==
    IF keys = {}
    THEN <<>>
    ELSE LET k == CHOOSE x \in keys : \A y \in keys : Abs(x[3]) <= Abs(y[3])
             o == CHOOSE x \in st : x.bucket = qid /\ x.key = k
         IN  <<o.body>> \o StateRead(st, qid, keys \ {k})

\* Mutant of CollectAll: the payloads read are dropped.
CollectNone(ar, proc, payloads) == ar

RECURSIVE CollectAll(_, _, _)
CollectAll(ar, proc, payloads) ==
    IF payloads = <<>>
    THEN ar
    ELSE CollectAll(ArenaCollect(ar, proc, Head(payloads)).arena, proc, Tail(payloads))

(***************************************************************************)
(* prepare_data_sources: the input of the executor and the window status.  *)
(* io carries the outcomes of the object-store calls of this invocation    *)
(* (fetchOk: get_object of the large payload, listOk: new_s3_keys,         *)
(* readOk: read).  The arena is mutated in place, so what was absorbed     *)
(* before a failing call stays absorbed.  The side input of a Ready        *)
(* status (actor.rs:243-248) is one more partition pushed after the ones   *)
(* below; it is read from the metadata and the object store alone and is   *)
(* left out of the input modelled here.                                    *)
(***************************************************************************)
\* Mutant of PushAll: the taken partitions are pushed last to first.
PushAllReversed(input, bs) ==
    input \o ToSeq([i \in 1..Len(bs) |-> bs[Len(bs) + 1 - i]], Len(bs))

PushAll(input, bs) == input \o bs

\* Mutant of TakeWindow: the window is taken but not marked as processed.
TakeWindowUnmarked(r, wid) ==
    LET t == ArenaTake(r.arena, wid)
    IN  [r EXCEPT !.arena = t.arena,
                  !.input = PushAll(r.input, t.partitions),
                  !.taken = t.partitions,
                  !.status = Ready]

TakeWindow(r, wid) ==
    LET t == ArenaTake(r.arena, wid)
    IN  [r EXCEPT !.arena = t.arena,
                  !.input = PushAll(r.input, t.partitions),
                  !.taken = t.partitions,
                  !.status = Ready,
                  !.processed = r.processed \cup {wid}]

\* Mutant of RecoverFromState: a window completed from the state backend is
\* taken but not marked as processed.
RecoverFromStateUnmarked(c, st, ev, io, r) ==
    LET wid == get_window_id(ev)
        bitmap == get_bitmap(r.arena, wid)
        keys == new_s3_keys(st, ev.uuid.qid, s3_key_prefix(c, ev), bitmap)
    IN  IF bitmap = <<>> \/ ~UsesObjectStore(c)
        THEN r
        ELSE IF ~io.listOk
        THEN [r EXCEPT !.outcome = "Err", !.listed = TRUE]
        ELSE IF keys = {}
        THEN [r EXCEPT !.listed = TRUE]
        ELSE IF ~io.readOk
        THEN [r EXCEPT !.outcome = "Err", !.listed = TRUE, !.keys = keys]
        ELSE LET payloads == StateRead(st, ev.uuid.qid, keys)
                 r2 == [r EXCEPT !.arena = CollectAll(r.arena, r.processed, payloads),
                                 !.listed = TRUE, !.keys = keys]
             IN  IF is_complete(r2.arena, wid) THEN TakeWindowUnmarked(r2, wid) ELSE r2

RecoverFromState(c, st, ev, io, r) ==
    LET wid == get_window_id(ev)
        bitmap == get_bitmap(r.arena, wid)
        keys == new_s3_keys(st, ev.uuid.qid, s3_key_prefix(c, ev), bitmap)
    IN  IF bitmap = <<>> \/ ~UsesObjectStore(c)
        THEN r
        ELSE IF ~io.listOk
        THEN [r EXCEPT !.outcome = "Err", !.listed = TRUE]
        ELSE IF keys = {}
        THEN [r EXCEPT !.listed = TRUE]
        ELSE IF ~io.readOk
        THEN [r EXCEPT !.outcome = "Err", !.listed = TRUE, !.keys = keys]
        ELSE LET payloads == StateRead(st, ev.uuid.qid, keys)
                 r2 == [r EXCEPT !.arena = CollectAll(r.arena, r.processed, payloads),
                                 !.listed = TRUE, !.keys = keys]
             IN  IF is_complete(r2.arena, wid) THEN TakeWindow(r2, wid) ELSE r2

prepare_data_sources(c, ar, proc, st, ev, io) ==
    LET wid == get_window_id(ev)
        r0 == [outcome |-> "Ok", status |-> NotReady, input |-> <<>>, taken |-> <<>>,
               arena |-> ar, processed |-> proc, collected |-> "None",
               absorbed |-> NoWindow, listed |-> FALSE, keys |-> {}]
    IN  IF wid \in proc
        THEN [r0 EXCEPT !.status = Processed]
        ELSE IF infer_s3_mode(ev.metadata)
        THEN IF ~io.fetchOk
             THEN [r0 EXCEPT !.outcome = "Panic"]
             ELSE LET rb == to_record_batch(read_payload_from_s3(ev))
                  IN  [r0 EXCEPT !.input = << <<rb[1]>>, <<rb[2]>> >>, !.status = Ready]
        ELSE IF is_aggregate(c)
        THEN LET c1 == ArenaCollect(ar, proc, ev)
                 r1 == [r0 EXCEPT !.arena = c1.arena, !.status = c1.status,
                                  !.collected = c1.status,
                                  !.absorbed = LookupWindow(c1.arena, wid)]
             IN  IF c1.status = Ready
                 THEN TakeWindow(r1, wid)
                 ELSE IF c1.status = NotReady
                 THEN RecoverFromState(c, st, ev, io, r1)
                 ELSE r1
        ELSE LET rb == to_record_batch(ev)
             IN  [r0 EXCEPT !.input = << <<rb[1]>>, <<rb[2]>> >>, !.status = Ready]

(***************************************************************************)
(* collect: run the subplan on the input.  The query engine is external:   *)
(* it returns nparts output partitions, those in empties without a row.    *)
(***************************************************************************)
collect(input, nparts, empties) ==
    ToSeq([i \in 1..nparts |->
              IF i \in empties THEN <<>> ELSE << [part |-> i, of |-> input] >>], nparts)

(***************************************************************************)
(* Payload construction, uuid allocation and the hash ring.                *)
(***************************************************************************)
NoPayload == Packet("none", None, 0, 1, NoMetadata)

to_payload(batches, uuid) ==
    [uuid |-> uuid, shuffle_id |-> None, data |-> batches, metadata |-> NoMetadata]

is_empty_data(p) == p.data = <<>>

FreshQid == "fresh"

next_uuid(i, size) == [qid |-> FreshQid, seq_num |-> i, seq_len |-> size]

func_idx == 1

ring_get(qid) == 0

ring_get_by_index(j) == <<"next", j>>

\* Mutant of StateKey: the key is under the plan index of the stage itself.
StateKeyOwnPlan(c, shuffle, p) ==
    <<PlanIndex(c), shuffle,
      IF is_empty_data(p) THEN -(p.uuid.seq_num) ELSE p.uuid.seq_num>>

StateKey(c, shuffle, p) ==
    <<PlanIndex(c) + 1, shuffle,
      IF is_empty_data(p) THEN -(p.uuid.seq_num) ELSE p.uuid.seq_num>>

(***************************************************************************)
(* invoke_next_functions: the invocations and state writes of one call.    *)
(***************************************************************************)
Invocation(fn, type, p) == [function |-> fn, invocation_type |-> type, payload |-> p]

StateWrite(c, shuffle, p) == [bucket |-> p.uuid.qid, key |-> StateKey(c, shuffle, p), body |-> p]

NoDispatch == [result |-> "Null", invoked |-> <<>>, persisted |-> <<>>, written |-> <<>>]

\* Mutant of SinkOutput: the output is written whatever the sink is.
SinkOutputAlways(c, output) ==
    [NoDispatch EXCEPT !.result = "Written",
                       !.written = << [sink |-> c.sink, name |-> c.name,
                                       data |-> Flatten(output)] >>]

SinkOutput(c, output) ==
    IF Flatten(output) # <<>> /\ c.sink # "Blackhole"
    THEN [NoDispatch EXCEPT !.result = "Written",
                            !.written = << [sink |-> c.sink, name |-> c.name,
                                            data |-> Flatten(output)] >>]
    ELSE NoDispatch

LambdaFromAggregate(c, metadata, output) ==
    LET size == Len(output)
    IN  [NoDispatch EXCEPT
           !.invoked = ToSeq([i \in 1..size |->
               Invocation(<<"next">>, invocation_type(metadata),
                  [to_payload(output[i], next_uuid(i - 1, size)) EXCEPT
                      !.metadata = metadata])], size)]

\* Mutant of LambdaFromPartitioned: a new uuid is allocated for the packet.
LambdaFromPartitionedFresh(c, uuid, metadata, output) ==
    [NoDispatch EXCEPT
       !.invoked = << Invocation(<<"next">>, invocation_type(metadata),
           [to_payload(Flatten(output), next_uuid(0, 1)) EXCEPT !.metadata = metadata]) >>]

LambdaFromPartitioned(c, uuid, metadata, output) ==
    [NoDispatch EXCEPT
       !.invoked = << Invocation(<<"next">>, invocation_type(metadata),
           [to_payload(Flatten(output), uuid) EXCEPT !.metadata = metadata]) >>]

\* Mutant of ForwardTarget: the member is chosen by the seq_num of the packet.
ForwardTargetBySeqNum(uuid) == uuid.seq_num % RingLen

\* The group member a non-shuffling stage forwards to: ring.get(&uuid.qid).
ForwardTarget(uuid) == ring_get(uuid.qid)

GroupForward(c, uuid, metadata, output) ==
    LET payload == [to_payload(Flatten(output), uuid) EXCEPT !.metadata = metadata]
    IN  [NoDispatch EXCEPT
           !.invoked = << Invocation(ring_get_by_index(ForwardTarget(uuid)),
                                     invocation_type(metadata), payload) >>,
           !.persisted = IF UsesObjectStore(c)
                         THEN << StateWrite(c, 1, payload) >>
                         ELSE <<>>]

ShuffleUuid(uuid, shuffle_id) ==
    IF shuffle_id # None THEN [uuid EXCEPT !.seq_num = shuffle_id] ELSE uuid

\* Mutant of ShuffleTarget: the base moves with the seq_num of the packet.
ShuffleTargetBySeqNum(i, uuid) == (func_idx + uuid.seq_num + (i - 1)) % RingLen

\* Mutant of ShuffleTarget: every partition goes to the member at the base.
ShuffleTargetAtBase(i, uuid) == func_idx % RingLen

\* The ring index of the member that gets output partition i (from 1) of a
\* shuffling stage: (func_idx + i) % ring.len() with i from 0 in the code.
\* It does not read the uuid of the packet.
ShuffleTarget(i, uuid) == (func_idx + (i - 1)) % RingLen

GroupShuffle(c, uuid, metadata, shuffle_id, output) ==
    LET payload(i) == [to_payload(output[i], ShuffleUuid(uuid, shuffle_id)) EXCEPT
                          !.metadata = metadata, !.shuffle_id = i]
    IN  [NoDispatch EXCEPT
           !.invoked = ToSeq([i \in 1..Len(output) |->
               Invocation(ring_get_by_index(ShuffleTarget(i, uuid)),
                          invocation_type(metadata), payload(i))],
               Len(output)),
           !.persisted = IF UsesObjectStore(c)
                         THEN ToSeq([i \in 1..Len(output) |-> StateWrite(c, i, payload(i))],
                                    Len(output))
                         ELSE <<>>]

invoke_next_functions(c, uuid, metadata, shuffle_id, output) ==
    CASE c.next = "Sink" -> SinkOutput(c, output)
      [] c.next = "Lambda" ->
            IF is_aggregate(c)
            THEN LambdaFromAggregate(c, metadata, output)
            ELSE LambdaFromPartitioned(c, uuid, metadata, output)
      [] c.next = "Group" ->
            IF ~is_shuffling(c)
            THEN GroupForward(c, uuid, metadata, output)
            ELSE GroupShuffle(c, uuid, metadata, shuffle_id, output)

(***************************************************************************)
(* handler: one whole invocation.  Returns the outcome and the new arena   *)
(* and processed set.                                                      *)
(***************************************************************************)
Quiet(ev, p) ==
    [event |-> ev, status |-> p.status, result |-> "Null",
     executed |-> FALSE, input |-> p.input, taken |-> p.taken,
     collected |-> p.collected, absorbed |-> p.absorbed,
     listed |-> p.listed, keys |-> p.keys, outputs |-> 0,
     output |-> <<>>,
     invoked |-> <<>>, persisted |-> <<>>, written |-> <<>>, response |-> NoPayload,
     arena |-> p.arena, processed |-> p.processed]

Dispatch(c, ev, p, output) ==
    LET d == invoke_next_functions(c, ev.uuid, ev.metadata, ev.shuffle_id, output)
    IN  [Quiet(ev, p) EXCEPT !.executed = TRUE, !.result = d.result,
                              !.outputs = Len(output), !.output = output,
                              !.invoked = d.invoked,
                              !.persisted = d.persisted, !.written = d.written]

\* Mutant of Respond: a window that is already processed is executed again.
RespondWithoutDedup(c, ev, io, p) ==
    IF p.outcome # "Ok"
    THEN [Quiet(ev, p) EXCEPT !.result = p.outcome]
    ELSE IF p.status = NotReady
    THEN Quiet(ev, p)
    ELSE Dispatch(c, ev, p, collect(p.input, io.nparts, io.empties))

Respond(c, ev, io, p) ==
    IF p.outcome # "Ok"
    THEN [Quiet(ev, p) EXCEPT !.result = p.outcome]
    ELSE IF p.status = Processed \/ p.status = NotReady
    THEN Quiet(ev, p)
    ELSE Dispatch(c, ev, p, collect(p.input, io.nparts, io.empties))

handler(c, ar, proc, st, ev, io) ==
    Respond(c, ev, io, prepare_data_sources(c, ar, proc, st, ev, io))

(***************************************************************************)
(* The state machine of one function process.                              *)
(***************************************************************************)
WindowIds == Qids \X (1..MaxShuffle)

\* Shuffle ids of the packets sent to this function: only a shuffling stage
\* sets one (actor.rs:476), and only on packets for members of a group.
InShuffles == IF upstream.shuffling THEN 1..MaxShuffle ELSE {None}

\* Metadata is copied from packet to packet along the pipeline, so all
\* packets of one query carry the same s3_bucket / s3_key entries.
Events ==
    {Packet(q, k, i, upstream.seq_len, Metadata(upstream.s3, upstream.invocation_type)) :
        q \in Qids, k \in InShuffles, i \in 0..(upstream.seq_len - 1)}

\* What the collaborators of one invocation answer: the object store
\* (fetchOk: get_object of the large payload, listOk: new_s3_keys, readOk:
\* read) and the query engine (nparts output partitions, those in empties
\* without a row).
IoOutcomes ==
    {io \in [fetchOk : BOOLEAN, listOk : BOOLEAN, readOk : BOOLEAN,
             nparts : 1..MaxParts, empties : SUBSET (1..MaxParts)] :
        io.empties \subseteq 1..io.nparts}

NoCall ==
    [event |-> NoPayload, status |-> "None", result |-> "None",
     executed |-> FALSE, input |-> <<>>, taken |-> <<>>, collected |-> "None",
     absorbed |-> NoWindow, listed |-> FALSE, keys |-> {}, outputs |-> 0,
     output |-> <<>>,
     invoked |-> <<>>, persisted |-> <<>>, written |-> <<>>, response |-> NoPayload,
     before |-> NoWindow, after |-> NoWindow, wasProcessed |-> FALSE, again |-> FALSE]

\* The stage model leaves the component models alone.
ComponentsIdle ==
    /\ dispatch = None
    /\ plan = None
    /\ flow = None
    /\ coordinator = None
    /\ process = None
    /\ ServicesIdle

\* A deployment whose windows have a length in lens and whose packets carry
\* an invocation_type in types.
Start(lens, types) ==
    /\ ctx \in Contexts \cup {GenericContext}
    /\ upstream \in [seq_len : lens, shuffling : BOOLEAN, s3 : BOOLEAN,
                     invocation_type : types]
    /\ upstream.shuffling => is_aggregate(ctx)
    /\ upstream.s3 => ctx.next # "Solo"
    /\ arena = <<>>
    /\ processed = {}
    /\ store = {}
    /\ last = NoCall
    /\ log = [w \in WindowIds |-> <<>>]
    /\ readies = [w \in WindowIds |-> 0]
    /\ got = [w \in WindowIds |-> {}]
    /\ effective = {}
    /\ ComponentsIdle

Init == Start(1..MaxSeqLen, {"absent"})

\* Single-packet windows under every invocation_type.
InitModes == Start({1}, InvocationTypes)

InArena(ev) == is_aggregate(ctx) /\ ~infer_s3_mode(ev.metadata)

Dispatched(h) == h.invoked # <<>> \/ h.persisted # <<>>

Logged(l, status) == IF l # <<>> /\ l[Len(l)] = status THEN l ELSE Append(l, status)

\* One invocation of the function with event ev.
Invoke(ev, io) ==
    /\ ctx.next # "Solo"
    /\ \E h \in {handler(ctx, arena, processed, store, ev, io)} :
       LET wid == get_window_id(ev)
       IN
        /\ arena' = h.arena
        /\ processed' = h.processed
        /\ last' = [event |-> h.event, status |-> h.status, result |-> h.result,
                    executed |-> h.executed, input |-> h.input, taken |-> h.taken,
                    collected |-> h.collected, absorbed |-> h.absorbed,
                    listed |-> h.listed, keys |-> h.keys, outputs |-> h.outputs,
                    output |-> h.output,
                    invoked |-> h.invoked, persisted |-> h.persisted,
                    written |-> h.written, response |-> h.response,
                    before |-> LookupWindow(arena, wid), after |-> LookupWindow(h.arena, wid),
                    wasProcessed |-> wid \in processed, again |-> ev \in effective]
        /\ log' = IF InArena(ev) THEN [log EXCEPT ![wid] = Logged(@, h.status)] ELSE log
        /\ readies' = IF InArena(ev) /\ h.status = Ready
                      THEN [readies EXCEPT ![wid] = @ + 1]
                      ELSE readies
        /\ got' = IF InArena(ev) THEN [got EXCEPT ![wid] = @ \cup {ev.uuid.seq_num}] ELSE got
        /\ effective' = IF Dispatched(h) THEN effective \cup {ev} ELSE effective
        /\ UNCHANGED <<ctx, upstream, store, componentVars>>

\* The outcomes an invocation with ev can observe: a call that is not made
\* has no outcome (it is fixed here to success, one partition, no empty one).
StoreIoFor(ev) ==
    {io \in [fetchOk : BOOLEAN, listOk : BOOLEAN, readOk : BOOLEAN] :
        /\ io.fetchOk \/ infer_s3_mode(ev.metadata)
        /\ io.listOk \/ (InArena(ev) /\ ctx.backend = "S3")
        /\ io.readOk \/ (InArena(ev) /\ ctx.backend = "S3" /\ io.listOk)}

WithEngine(sio, n, e) ==
    [fetchOk |-> sio.fetchOk, listOk |-> sio.listOk, readOk |-> sio.readOk,
     nparts |-> n, empties |-> e]

Executes(ev, sio) ==
    LET p == prepare_data_sources(ctx, arena, processed, store, ev, WithEngine(sio, 1, {}))
    IN  ctx.next = "Solo" \/ (p.outcome = "Ok" /\ p.status = Ready)

IoFor(ev) ==
    UNION {IF Executes(ev, sio)
           THEN {WithEngine(sio, n, e) : n \in 1..MaxParts, e \in SUBSET (1..MaxParts)}
                   \cap IoOutcomes
           ELSE {WithEngine(sio, 1, {})} :
           sio \in StoreIoFor(ev)}

Deliver == \E ev \in Events : \E io \in IoFor(ev) : Invoke(ev, io)

\* An upstream sibling persists the packet it sends to this aggregator
\* (actor.rs:383-414 and 487-522, run in the sibling's process).
UpstreamPersist ==
    /\ is_aggregate(ctx)
    /\ ctx.backend = "S3"
    /\ ~upstream.s3
    /\ \E q \in Qids, k \in InShuffles, i \in 0..(upstream.seq_len - 1) :
          LET p == Packet(q, k, i, upstream.seq_len, Metadata(FALSE, upstream.invocation_type))
              o == [bucket |-> q, key |-> <<PlanIndex(ctx), get_shuffle_id(p), i>>, body |-> p]
          IN  store' = {x \in store : ~(x.bucket = o.bucket /\ x.key = o.key)} \cup {o}
    /\ UNCHANGED <<ctx, upstream, arena, processed, last, log, readies, got, effective,
                   componentVars>>

\* One invocation of the generic function (lambda.rs handler with
\* DataSource::Payload): the answer is the payload of the first output
\* partition under the uuid of the event.
payload_handler(ev, io) ==
    LET rb == to_record_batch(ev)
        batches == collect(<< <<rb[1]>> >>, io.nparts, io.empties)
    IN  to_payload(batches[1], ev.uuid)

GenericInvoke(ev, io) ==
    /\ ctx.next = "Solo"
    /\ last' = [NoCall EXCEPT !.event = ev, !.result = "Payload",
                              !.executed = TRUE, !.outputs = io.nparts,
                              !.response = payload_handler(ev, io)]
    /\ UNCHANGED <<ctx, upstream, arena, processed, store, log, readies, got, effective,
                   componentVars>>

GenericDeliver == \E ev \in Events : \E io \in IoFor(ev) : GenericInvoke(ev, io)

Next == Deliver \/ UpstreamPersist \/ GenericDeliver

Spec == Init /\ [][Next]_vars

SpecModes == InitModes /\ [][Next]_vars

(***************************************************************************)
(* Properties.                                                             *)
(***************************************************************************)
SeqNums == 0..(upstream.seq_len - 1)

LastWindow == get_window_id(last.event)

LastBit == last.event.uuid.seq_num + 1

\* The statuses one window may obtain, in order (a run written once).
WindowLogs ==
    {<<>>, <<NotReady>>, <<Ready>>, <<NotReady, Ready>>, <<Ready, Processed>>,
     <<NotReady, Ready, Processed>>}

\* C1: the inline deliveries of the packets of one window to an aggregator,
\* in any order and with any duplicates, obtain NotReady until one of them
\* obtains Ready, and Processed after it; exactly one obtains Ready, and it is
\* the one after which every seq_num of the window has been absorbed.
C1_ExactlyOneReady ==
    /\ \A w \in WindowIds :
          /\ readies[w] <= 1
          /\ log[w] \in WindowLogs
          /\ got[w] = SeqNums => readies[w] = 1
    /\ (InArena(last.event) /\ last.status = Ready) =>
          /\ ~last.wasProcessed
          /\ \E i \in SeqNums : last.before = NoWindow \/ ~last.before.bitmap[i + 1]
          /\ Len(last.taken) = upstream.seq_len
          /\ \A i \in SeqNums : last.taken[i + 1] # <<>>
          /\ LastWindow \in processed

C1_Witness ==
    /\ upstream.seq_len = 2
    /\ \E w \in WindowIds : log[w] = <<NotReady, Ready, Processed>>

\* C2: the partitions taken for a completed window hold the batches of the
\* packet with seq_num i in slot i, whatever the arrival order was, and they
\* are the leading partitions of the input of the executor, in that order.
C2_SlotBySeqNum ==
    (InArena(last.event) /\ last.status = Ready) =>
        /\ Len(last.taken) = upstream.seq_len
        /\ \A i \in SeqNums :
              last.taken[i + 1] =
                 Packet(last.event.uuid.qid, last.event.shuffle_id, i,
                        upstream.seq_len, last.event.metadata).data
        /\ SubSeq(last.input, 1, Len(last.taken)) = last.taken

C2_Witness ==
    /\ InArena(last.event)
    /\ last.status = Ready
    /\ upstream.seq_len = 2
    /\ last.event.uuid.seq_num = 0

\* C3: the processed set only grows, and an invocation with a packet of a
\* window that is in the processed set obtains Processed, returns Null,
\* executes nothing, invokes no successor and persists nothing.
C3_ProcessedAbsorbed ==
    [][/\ processed \subseteq processed'
       /\ last'.wasProcessed =>
             /\ last'.status = Processed
             /\ last'.result = "Null"
             /\ ~last'.executed
             /\ last'.invoked = <<>>
             /\ last'.persisted = <<>>]_vars

C3_Witness == last.wasProcessed /\ last.status = Processed

\* C4: an invocation with a payload whose earlier handling already
\* dispatched to a successor dispatches nothing.
C4_SecondDeliveryAbsorbed == last.again => ~Dispatched(last)

\* C5: collecting a packet whose bit is already set in an incomplete window
\* returns NotReady and leaves the bitmap and the partitions of the window
\* as they were.
C5_DuplicateIgnored ==
    (/\ InArena(last.event)
     /\ ~last.wasProcessed
     /\ last.before # NoWindow
     /\ last.before.bitmap[LastBit]) =>
        /\ last.collected = NotReady
        /\ last.absorbed = last.before

C5_Witness ==
    /\ InArena(last.event)
    /\ ~last.wasProcessed
    /\ last.before # NoWindow
    /\ last.before.bitmap[LastBit]

\* C6: when the window of the packet is still incomplete after the
\* invocation, the handler returned Null, executed nothing and invoked no
\* successor, and what was absorbed (the packet included) is in the arena.
C6_IncompleteReturnsNull ==
    (InArena(last.event) /\ ~last.wasProcessed /\ last.after # NoWindow) =>
        /\ last.result = "Null"
        /\ ~last.executed
        /\ last.invoked = <<>>
        /\ last.after.bitmap[LastBit]
        /\ \A i \in DOMAIN last.before.bitmap :
              last.before.bitmap[i] =>
                 /\ last.after.bitmap[i]
                 /\ last.after.partitions[i] = last.before.partitions[i]

\* C7: an invocation changes no window other than the one of its packet
\* (qid and shuffle id): neither its bitmap, nor its partitions, nor its
\* membership in the processed set; and Processed is obtained only for a
\* window that is itself in the processed set.
C7_ShuffleWindowsApart ==
    [][/\ \A w \in WindowIds :
             w # get_window_id(last'.event) =>
                /\ LookupWindow(arena', w) = LookupWindow(arena, w)
                /\ (w \in processed') = (w \in processed)
       /\ last'.status = Processed => last'.wasProcessed]_vars

C7_Witness ==
    /\ last.event.shuffle_id = 2
    /\ last.status = NotReady
    /\ last.after # NoWindow
    /\ <<last.event.uuid.qid, 1>> \in processed

\* C8: every packet sent to a successor has 0 <= seq_num < seq_len.
C8_SeqNumInRange ==
    \A i \in DOMAIN last.invoked :
        /\ 0 <= last.invoked[i].payload.uuid.seq_num
        /\ last.invoked[i].payload.uuid.seq_num < last.invoked[i].payload.uuid.seq_len

\* C9: every packet a non-aggregator stage sends to a Point or Group
\* successor, and the payload the generic function answers with, carries
\* the uuid of the incoming packet.
C9_UuidPreserved ==
    /\ (~is_aggregate(ctx) /\ ctx.next \in {"Lambda", "Group"}) =>
          /\ last.executed => last.invoked # <<>>
          /\ \A i \in DOMAIN last.invoked :
                last.invoked[i].payload.uuid = last.event.uuid
    /\ (ctx.next = "Solo" /\ last.executed) => last.response.uuid = last.event.uuid

C9_Witness ==
    /\ ~is_aggregate(ctx)
    /\ ctx.next = "Group"
    /\ is_shuffling(ctx)
    /\ Len(last.invoked) = 2
    /\ last.event.uuid.seq_num = 1

\* C10: an aggregator that emits the output of a completed window to a
\* Point or Group successor emits one packet per output partition, each
\* under a uuid that is not the one of an incoming packet, with pairwise
\* distinct seq_num and seq_len equal to the number of output partitions.
C10_AggregatorFreshUuids ==
    (/\ InArena(last.event)
     /\ last.status = Ready
     /\ last.result = "Null"
     /\ ctx.next \in {"Lambda", "Group"}) =>
        /\ Len(last.invoked) = last.outputs
        /\ \A i \in DOMAIN last.invoked :
              /\ last.invoked[i].payload.uuid.qid # last.event.uuid.qid
              /\ last.invoked[i].payload.uuid.seq_len = last.outputs
        /\ \A i, j \in DOMAIN last.invoked :
              i # j => last.invoked[i].payload.uuid.seq_num
                          # last.invoked[j].payload.uuid.seq_num

\* The latest invocation ran the subplan of a shuffling stage.
LastShuffled == ctx.next = "Group" /\ is_shuffling(ctx) /\ last.executed

\* C11: every execution of a shuffling stage, whatever the function (its
\* name) and whatever the packet, sends output partition i (from 0) to the
\* ring entry at (func_idx + i) mod N, func_idx being the same in all of them.
C11_ShuffleDeterminism ==
    LastShuffled =>
        /\ Len(last.invoked) = last.outputs
        /\ \A i \in DOMAIN last.invoked :
              last.invoked[i].function
                 = ring_get_by_index((func_idx + (i - 1)) % RingLen)

C11_Witness ==
    /\ LastShuffled
    /\ last.outputs = 2
    /\ last.event.uuid.seq_num = 1

\* C12: a shuffling stage that emits as many partitions as the group has
\* members sends exactly one packet to each member, and the packet for the
\* member at (func_idx + k - 1) mod N carries shuffle_id k: the same k for
\* every sender, and different k for different members.
C12_ShuffleConsistency ==
    (LastShuffled /\ last.outputs = RingLen) =>
        /\ \A j \in 0..(RingLen - 1) :
              Cardinality({i \in DOMAIN last.invoked :
                             last.invoked[i].function = ring_get_by_index(j)}) = 1
        /\ \A i \in DOMAIN last.invoked :
              /\ last.invoked[i].payload.shuffle_id = i
              /\ last.invoked[i].function
                    = ring_get_by_index((func_idx + (i - 1)) % RingLen)

C12_Witness ==
    /\ LastShuffled
    /\ ~is_aggregate(ctx)
    /\ last.outputs = RingLen
    /\ Len(last.invoked) = RingLen

\* C13: a non-shuffling stage with a Group successor that ran its subplan
\* invokes exactly one member, the one ring.get gives for the qid of the
\* packet, whatever the function and the rest of the packet.
C13_PointForwardByQid ==
    (ctx.next = "Group" /\ ~is_shuffling(ctx) /\ last.executed) =>
        /\ Len(last.invoked) = 1
        /\ last.invoked[1].function = ring_get_by_index(ring_get(last.event.uuid.qid))

C13_Witness ==
    /\ ctx.next = "Group"
    /\ ~is_shuffling(ctx)
    /\ last.executed
    /\ last.event.uuid.seq_num = 1
    /\ last.outputs = 2

\* C14: a stage whose successor is a sink invokes no function and persists
\* nothing; with the blackhole sink or an output without a batch it writes
\* nothing and returns Null, otherwise it writes the flattened output once,
\* to its sink.
C14_SinkOnlyWrites ==
    ctx.next = "Sink" =>
        /\ last.invoked = <<>>
        /\ last.persisted = <<>>
        /\ last.executed =>
              IF ctx.sink = "Blackhole" \/ Flatten(last.output) = <<>>
              THEN last.written = <<>> /\ last.result = "Null"
              ELSE /\ Len(last.written) = 1
                   /\ last.written[1].sink = ctx.sink
                   /\ last.written[1].data = Flatten(last.output)

C14_Witness ==
    /\ ctx.next = "Sink"
    /\ ctx.sink # "Blackhole"
    /\ last.executed
    /\ Len(last.written) = 1

\* C15: every successor invocation of a handler call is asynchronous exactly
\* when invocation_type of the incoming metadata is "async", and every
\* emitted packet carries the incoming metadata unchanged.
C15_InvocationModePropagated ==
    \A i \in DOMAIN last.invoked :
        /\ (last.invoked[i].invocation_type = "Event")
              = (last.event.metadata.invocation_type = "async")
        /\ last.invoked[i].invocation_type \in {"Event", "RequestResponse"}
        /\ last.invoked[i].payload.metadata = last.event.metadata

C15_Witness ==
    /\ Len(last.invoked) = 2
    /\ last.event.metadata.invocation_type = "absent"
    /\ last.invoked[1].invocation_type = "RequestResponse"

Missing(w) == {i \in DOMAIN w.bitmap : ~w.bitmap[i]}

\* The slots that have an object in st under the prefix the stage reads for ev.
Persisted(st, ev) ==
    {Abs(o.key[3]) + 1 :
        o \in {x \in st : /\ x.bucket = ev.uuid.qid
                          /\ <<x.key[1], x.key[2]>> = s3_key_prefix(ctx, ev)}}

\* C17: on an aggregator with the object-store backend the keys asked for
\* are keys of unset bits only; and when collecting the packet leaves the
\* window NotReady while every missing seq_num has an object under the
\* prefix of the stage and the store answers, all of them are read and
\* collected, the status is Ready, the window is taken and marked processed
\* and the subplan runs on all the packets of the window.
C17_RecoveryCompletes ==
    [][(/\ store' = store
        /\ InArena(last'.event)
        /\ ctx.backend = "S3"
        /\ last'.collected = NotReady) =>
          /\ {Abs(k[3]) + 1 : k \in last'.keys} \subseteq Missing(last'.absorbed)
          /\ (last'.result # "Err" /\ Missing(last'.absorbed) \subseteq Persisted(store, last'.event)) =>
                /\ last'.listed
                /\ {Abs(k[3]) + 1 : k \in last'.keys} = Missing(last'.absorbed)
                /\ last'.status = Ready
                /\ get_window_id(last'.event) \in processed'
                /\ LookupWindow(arena', get_window_id(last'.event)) = NoWindow
                /\ last'.executed
                /\ Len(last'.taken) = upstream.seq_len
                /\ \A i \in DOMAIN last'.taken : last'.taken[i] # <<>>]_vars

C17_Witness ==
    /\ upstream.seq_len = 2
    /\ last.collected = NotReady
    /\ last.keys # {}
    /\ last.status = Ready
    /\ last.executed

\* C18: an invocation that attempted state recovery and left the window
\* NotReady returned Null, with the window as it was after collecting the
\* packet.
C18_RecoveryFailureAbsorbed ==
    (InArena(last.event) /\ last.listed /\ last.status = NotReady) =>
        /\ last.result = "Null"
        /\ last.after = last.absorbed

\* C19: with the in-memory backend no invocation lists keys, reads
\* objects or persists a packet; routing to a group only invokes.
C19_InMemoryNoStore ==
    ctx.backend = "HashMap" =>
        /\ ~last.listed
        /\ last.keys = {}
        /\ last.persisted = <<>>
        /\ (ctx.next = "Group" /\ last.executed) => last.invoked # <<>>

C19_Witness ==
    /\ ctx.backend = "HashMap"
    /\ ctx.next = "Group"
    /\ is_aggregate(ctx)
    /\ upstream.seq_len = 2
    /\ last.status = Ready
    /\ last.invoked # <<>>

\* C20: with the object-store backend and a Group successor every packet
\* invoked is persisted once, as it is sent, in the bucket of its qid under
\* (plan index + 1)/(shuffle id)/(seq_num, negated for a placeholder), the
\* shuffle id being 1 when not shuffling and i + 1 for partition i (from 0);
\* nothing is persisted for a Point or Sink successor.
C20_PersistedAsSent ==
    /\ (ctx.backend = "S3" /\ ctx.next = "Group" /\ last.executed) =>
          /\ Len(last.persisted) = Len(last.invoked)
          /\ \A i \in DOMAIN last.invoked :
                /\ last.persisted[i].body = last.invoked[i].payload
                /\ last.persisted[i].bucket = last.invoked[i].payload.uuid.qid
                /\ last.persisted[i].key[1] = PlanIndex(ctx) + 1
                /\ last.persisted[i].key[2] = IF is_shuffling(ctx) THEN i ELSE 1
                /\ Abs(last.persisted[i].key[3]) = last.invoked[i].payload.uuid.seq_num
    /\ ctx.next \in {"Lambda", "Sink"} => last.persisted = <<>>

C20_Witness ==
    /\ ctx.backend = "S3"
    /\ ctx.next = "Group"
    /\ is_shuffling(ctx)
    /\ Len(last.persisted) = 2

\* C21: the seq_num component of the key of every persisted partial is
\* negative exactly when the persisted packet has no row.  Refuted for
\* seq_num 0: -(0) = 0, so the placeholder of packet 0 is written under the
\* key of a data packet.
C21_PlaceholderKeyNegative ==
    \A i \in DOMAIN last.persisted :
        (last.persisted[i].key[3] < 0) <=> is_empty_data(last.persisted[i].body)

(***************************************************************************)
(* invoke_next_functions task by task (actor.rs:264-546): the tasks one    *)
(* call spawns with tokio::spawn, the invocation it awaits inline, and the *)
(* join_all it returns from.  A task is an invocation of a successor, a    *)
(* write to the state backend, or, in the shuffling branch, the outer task *)
(* of one output partition, which spawns and joins the two others.         *)
(***************************************************************************)
MaxBytes == 2

\* The per-invocation payload ceiling of the cloud function, in the unit of
\* MaxBytes.
PayloadCeiling == 1

Branches == {"Sink", "LambdaAggregate", "LambdaInline", "GroupForward", "GroupShuffle"}

\* owner 0: joined by the handler; owner i: joined by the outer task of
\* partition i.  An invocation always carries the serialized payload itself
\* (Some(bytes.into())).
Task(kind, part, owner, bytes) ==
    [kind |-> kind, part |-> part, owner |-> owner, bytes |-> bytes,
     inline |-> kind = "invoke", forked |-> kind # "partition", status |-> "running"]

RECURSIVE SumBytes(_)
SumBytes(bytes) == IF bytes = <<>> THEN 0 ELSE Head(bytes) + SumBytes(Tail(bytes))

\* The persist task, spawned only with the S3 state backend, then the
\* invoke task of the same packet (actor.rs:383-420, 487-532).
PersistAndInvoke(s3, part, owner, bytes) ==
    (IF s3 THEN <<Task("persist", part, owner, bytes)>> ELSE <<>>)
        \o <<Task("invoke", part, owner, bytes)>>

\* The tasks a call creates before its first await.
SpawnTasks(branch, s3, bytes) ==
    CASE branch = "Sink" -> <<>>
      [] branch = "LambdaAggregate" ->
            ToSeq([i \in 1..Len(bytes) |-> Task("invoke", i, 0, bytes[i])], Len(bytes))
      [] branch = "LambdaInline" -> <<Task("invoke", 1, 0, SumBytes(bytes))>>
      [] branch = "GroupForward" -> PersistAndInvoke(s3, 1, 0, SumBytes(bytes))
      [] branch = "GroupShuffle" ->
            ToSeq([i \in 1..Len(bytes) |-> Task("partition", i, 0, bytes[i])], Len(bytes))

NoTasks ==
    [pc |-> "idle", branch |-> "None", s3 |-> FALSE, tasks |-> <<>>,
     finished |-> <<>>, result |-> "None"]

\* Mutant of Joined: the join ends at the first failed task (try_join_all).
JoinedUntilFailure(tasks, owner) ==
    \/ \A t \in DOMAIN tasks : tasks[t].owner = owner => tasks[t].status # "running"
    \/ \E t \in DOMAIN tasks : tasks[t].owner = owner /\ tasks[t].status = "failed"

\* futures::future::join_all(tasks).await is over: every task of the owner
\* has finished, whatever its result.
Joined(tasks, owner) ==
    \A t \in DOMAIN tasks : tasks[t].owner = owner => tasks[t].status # "running"

\* The value invoke_next_functions returns: the results of joined tasks are
\* dropped (actor.rs:333, 422, 540); the inline invocation of the
\* non-aggregator with a Lambda successor is awaited with `?` (actor.rs:356).
DispatchResult(branch, tasks) ==
    IF branch = "LambdaInline" /\ \E t \in DOMAIN tasks : tasks[t].status = "failed"
    THEN "Err"
    ELSE "Ok"

\* The component models leave the stage model alone.
StageIdle ==
    /\ ctx = GenericContext
    /\ upstream = [seq_len |-> 1, shuffling |-> FALSE, s3 |-> FALSE,
                   invocation_type |-> "absent"]
    /\ arena = <<>>
    /\ processed = {}
    /\ store = {}
    /\ last = NoCall
    /\ log = [w \in WindowIds |-> <<>>]
    /\ readies = [w \in WindowIds |-> 0]
    /\ got = [w \in WindowIds |-> {}]
    /\ effective = {}

DispatchInit ==
    /\ StageIdle
    /\ ServicesIdle
    /\ dispatch = NoTasks
    /\ plan = None
    /\ flow = None
    /\ coordinator = None
    /\ process = None

DispatchFrame == UNCHANGED <<stageVars, plan, flow, coordinator, process, serviceVars>>

\* The call up to its first await.
DispatchBegin ==
    /\ dispatch.pc = "idle"
    /\ \E branch \in Branches, s3 \in BOOLEAN, n \in 1..MaxParts :
       \E bytes \in [1..n -> 1..MaxBytes] :
          /\ dispatch' = [NoTasks EXCEPT
                !.pc = IF branch = "Sink" THEN "returned" ELSE "joining",
                !.branch = branch,
                !.s3 = s3,
                !.tasks = SpawnTasks(branch, s3, ToSeq(bytes, n)),
                !.result = IF branch = "Sink" THEN "Ok" ELSE "None"]
    /\ DispatchFrame

\* The outer task of partition i spawns its persist and invoke tasks.
DispatchFork ==
    /\ dispatch.pc = "joining"
    /\ \E t \in DOMAIN dispatch.tasks :
          /\ ~dispatch.tasks[t].forked
          /\ dispatch' = [dispatch EXCEPT
                !.tasks = [@ EXCEPT ![t].forked = TRUE]
                            \o PersistAndInvoke(dispatch.s3, @[t].part, @[t].part, @[t].bytes)]
    /\ DispatchFrame

\* An invocation or a write ends, with or without an error.
DispatchFinish ==
    /\ dispatch.pc = "joining"
    /\ \E t \in DOMAIN dispatch.tasks, ok \in BOOLEAN :
          /\ dispatch.tasks[t].kind \in {"invoke", "persist"}
          /\ dispatch.tasks[t].status = "running"
          /\ dispatch' = [dispatch EXCEPT
                !.tasks[t].status = IF ok THEN "ok" ELSE "failed",
                !.finished = Append(@, t)]
    /\ DispatchFrame

\* The outer task of a partition ends with Ok(()) once its join is over
\* (actor.rs:534-536).
DispatchJoinPartition ==
    /\ dispatch.pc = "joining"
    /\ \E t \in DOMAIN dispatch.tasks :
          /\ dispatch.tasks[t].kind = "partition"
          /\ dispatch.tasks[t].forked
          /\ dispatch.tasks[t].status = "running"
          /\ Joined(dispatch.tasks, dispatch.tasks[t].part)
          /\ dispatch' = [dispatch EXCEPT !.tasks[t].status = "ok",
                                          !.finished = Append(@, t)]
    /\ DispatchFrame

\* invoke_next_functions returns to the handler.
DispatchReturn ==
    /\ dispatch.pc = "joining"
    /\ Joined(dispatch.tasks, 0)
    /\ dispatch' = [dispatch EXCEPT
            !.pc = "returned",
            !.result = DispatchResult(dispatch.branch, dispatch.tasks)]
    /\ DispatchFrame

DispatchNext ==
    \/ DispatchBegin
    \/ DispatchFork
    \/ DispatchFinish
    \/ DispatchJoinPartition
    \/ DispatchReturn

SpecDispatch == DispatchInit /\ [][DispatchNext]_vars

\* The position of task t in the order of completion (0: not finished).
FinishedAt(t) ==
    IF \E k \in DOMAIN dispatch.finished : dispatch.finished[k] = t
    THEN CHOOSE k \in DOMAIN dispatch.finished : dispatch.finished[k] = t
    ELSE 0

\* The invoke task of the packet that persist task t writes.
InvokeOf(t) ==
    CHOOSE u \in DOMAIN dispatch.tasks :
        /\ dispatch.tasks[u].kind = "invoke"
        /\ dispatch.tasks[u].part = dispatch.tasks[t].part
        /\ dispatch.tasks[u].owner = dispatch.tasks[t].owner

\* C22: the call returns only when every task it started, directly or
\* through the outer task of a partition, has finished (none is left
\* running), and a persist task always has the invoke task of its packet
\* beside it, which finishes whatever the persist did and conversely.
C22_AllTasksJoined ==
    /\ dispatch.pc = "returned" =>
          \A t \in DOMAIN dispatch.tasks :
              /\ dispatch.tasks[t].forked
              /\ dispatch.tasks[t].status \in {"ok", "failed"}
    /\ dispatch.pc \in {"joining", "returned"} =>
          \A t \in DOMAIN dispatch.tasks :
              dispatch.tasks[t].kind = "persist" =>
                  \E u \in DOMAIN dispatch.tasks :
                      /\ dispatch.tasks[u].kind = "invoke"
                      /\ dispatch.tasks[u].part = dispatch.tasks[t].part
                      /\ dispatch.tasks[u].owner = dispatch.tasks[t].owner
                      /\ dispatch.tasks[u].bytes = dispatch.tasks[t].bytes

\* The persist of a packet failed first, its invoke succeeded afterwards,
\* and the call returned.
C22_Witness ==
    /\ dispatch.pc = "returned"
    /\ \E t \in DOMAIN dispatch.tasks :
          /\ dispatch.tasks[t].kind = "persist"
          /\ dispatch.tasks[t].status = "failed"
          /\ dispatch.tasks[InvokeOf(t)].status = "ok"
          /\ FinishedAt(t) < FinishedAt(InvokeOf(t))

\* C23: whatever the successor kind, a failed invocation leaves the other
\* tasks of the call to finish and the call does not return an error.
\* Refuted for the non-aggregator with a Lambda successor, whose only
\* invocation is awaited with `?`.
C23_InvokeFailureTolerated ==
    (/\ dispatch.pc = "returned"
     /\ \E t \in DOMAIN dispatch.tasks :
           dispatch.tasks[t].kind = "invoke" /\ dispatch.tasks[t].status = "failed")
    => /\ dispatch.result = "Ok"
       /\ \A t \in DOMAIN dispatch.tasks : dispatch.tasks[t].status # "running"

\* C24: no successor is invoked with an inline packet larger than the
\* payload ceiling.  Refuted: the serialized payload is passed to
\* invoke_function whatever its length.
C24_InlineWithinCeiling ==
    \A t \in DOMAIN dispatch.tasks :
        (dispatch.tasks[t].kind = "invoke" /\ dispatch.tasks[t].inline)
            => dispatch.tasks[t].bytes <= PayloadCeiling

(***************************************************************************)
(* The leaves of the subplan (context.rs:227-325).  The breadth-first walk *)
(* over the root plans visits the leaves in a fixed order, so the plan is  *)
(* the sequence of its leaves in that order; a schema is its set of field  *)
(* names; a batch carries the call that produced it and the index of its   *)
(* source, or nothing when empty.                                          *)
(***************************************************************************)
MaxLeaves == 2
MaxSources == 2
MaxCalls == 2

Fields == {"c1", "c2"}

Schemas == (SUBSET Fields) \ {{}}

new_empty(schema) == [schema |-> schema, data |-> <<0, 0>>]

\* The partitions of one source: the last one holds one batch, the others
\* none; without a schema no partition holds a batch.
Source(schema, call, j, nparts) ==
    ToSeq([p \in 1..nparts |->
              IF p = nparts /\ schema # {}
              THEN <<[schema |-> schema, data |-> <<call, j>>]>>
              ELSE <<>>],
          nparts)

\* The schema of the first batch of the first partition that has one
\* (context.rs:272-283); the schema without a field when no partition
\* has a batch.
RECURSIVE SourceSchema(_)
SourceSchema(partitions) ==
    IF partitions = <<>> THEN {}
    ELSE IF Head(partitions) # <<>> THEN Head(partitions)[1].schema
    ELSE SourceSchema(Tail(partitions))

compare_schema(schema1, schema2) ==
    LET superset == IF Cardinality(schema1) >= Cardinality(schema2) THEN schema1 ELSE schema2
        subset == IF Cardinality(schema1) >= Cardinality(schema2) THEN schema2 ELSE schema1
    IN  \A f \in subset : f \in superset

Matches(schema, source) ==
    SourceSchema(source) # {} /\ compare_schema(schema, SourceSchema(source))

\* The index of the first source that matches the leaf, 0 without one.
FindSource(schema, sources) ==
    IF \E i \in DOMAIN sources : Matches(schema, sources[i])
    THEN CHOOSE i \in DOMAIN sources :
            /\ Matches(schema, sources[i])
            /\ \A k \in 1..(i - 1) : ~Matches(schema, sources[k])
    ELSE 0

\* Mutant of Remove: the source stays in the list.
RemoveNothing(sources, index) == sources

\* sources.remove(index)
Remove(sources, index) ==
    SubSeq(sources, 1, index - 1) \o SubSeq(sources, index + 1, Len(sources))

EmptyBatches(schema, num_partitions) ==
    << ToSeq([p \in 1..num_partitions |-> new_empty(schema)], num_partitions) >>

\* The loop of feed_data_sources over the leaves still to visit.
RECURSIVE FeedLeaves(_, _, _)
FeedLeaves(leaves, sources, num_partitions) ==
    IF leaves = <<>> THEN <<>>
    ELSE LET leaf == Head(leaves)
             index == FindSource(leaf.schema, sources)
         IN  IF index # 0
             THEN <<[leaf EXCEPT !.partitions = sources[index]]>>
                    \o FeedLeaves(Tail(leaves), Remove(sources, index), num_partitions)
             ELSE <<[leaf EXCEPT !.partitions = EmptyBatches(leaf.schema, num_partitions)]>>
                    \o FeedLeaves(Tail(leaves), sources, num_partitions)

feed_data_sources(leaves, sources) == FeedLeaves(leaves, sources, Len(sources[1]))

\* Mutant of clean_data_sources: the leaves are left as they are.
clean_nothing(leaves) == leaves

clean_data_sources(leaves) ==
    ToSeq([i \in 1..Len(leaves) |->
              [leaves[i] EXCEPT !.partitions = << <<new_empty(leaves[i].schema)>> >>]],
          Len(leaves))

\* The sources one invocation can hand to collect, each as its schema and
\* its number of partitions.
SourceShapes ==
    UNION {{ToSeq(f, n) : f \in [1..n -> (SUBSET Fields) \X (1..MaxParts)]} :
           n \in 1..MaxSources}

Sources(call, shapes) ==
    ToSeq([j \in 1..Len(shapes) |-> Source(shapes[j][1], call, j, shapes[j][2])],
          Len(shapes))

PlanInit ==
    /\ StageIdle
    /\ ServicesIdle
    /\ \E n \in 1..MaxLeaves : \E schemas \in [1..n -> Schemas] :
          plan = [leaves |-> clean_data_sources(
                                ToSeq([i \in 1..n |-> [schema |-> schemas[i], partitions |-> <<>>]], n)),
                  fed |-> <<>>, sources |-> <<>>, calls |-> 0, outcome |-> "None"]
    /\ dispatch = None
    /\ flow = None
    /\ coordinator = None
    /\ process = None

\* collect (actor.rs:54-79): feed, execute, clean.  When the execution
\* fails the call ends before clean_data_sources.
Collect ==
    /\ plan.calls < MaxCalls
    /\ \E shapes \in SourceShapes, ok \in BOOLEAN :
          LET sources == Sources(plan.calls + 1, shapes)
              fed == feed_data_sources(plan.leaves, sources)
          IN  plan' = [leaves |-> IF ok THEN clean_data_sources(fed) ELSE fed,
                       fed |-> fed,
                       sources |-> sources,
                       calls |-> plan.calls + 1,
                       outcome |-> IF ok THEN "Ok" ELSE "Failed"]
    /\ UNCHANGED <<stageVars, dispatch, flow, coordinator, process, serviceVars>>

SpecPlan == PlanInit /\ [][Collect]_vars

\* The sources of the last call a leaf was bound to.
BoundTo(leaf) ==
    {j \in DOMAIN plan.sources :
        /\ leaf.partitions = plan.sources[j]
        /\ SourceSchema(plan.sources[j]) # {}}

\* C25: after feed_data_sources every leaf is bound to one source of this
\* call whose field names and the leaf's are contained one in the other,
\* smaller in larger, or to empty batches of its own schema, as many as
\* the first source has partitions; no source is bound to two leaves; the
\* sources left over are dropped.
C25_LeavesBound ==
    plan.outcome # "None" =>
        /\ Len(plan.fed) = Len(plan.leaves)
        /\ \A i \in DOMAIN plan.fed :
              \/ /\ Cardinality(BoundTo(plan.fed[i])) = 1
                 /\ \A j \in BoundTo(plan.fed[i]) :
                       LET a == plan.fed[i].schema
                           b == SourceSchema(plan.sources[j])
                       IN  a \subseteq b \/ b \subseteq a
              \/ plan.fed[i].partitions =
                    EmptyBatches(plan.fed[i].schema, Len(plan.sources[1]))
        /\ \A i, k \in DOMAIN plan.fed :
              i # k => BoundTo(plan.fed[i]) \cap BoundTo(plan.fed[k]) = {}

\* A second call in which the first leaf gets the second source, the
\* second leaf gets empty batches and the first source is dropped.
C25_Witness ==
    /\ plan.calls = 2
    /\ Len(plan.fed) = 2
    /\ Len(plan.sources) = 2
    /\ BoundTo(plan.fed[1]) = {2}
    /\ BoundTo(plan.fed[2]) = {}
    /\ SourceSchema(plan.sources[1]) # {}

MaxNodes == 4

CONCURRENCY_1 == 1

CONCURRENCY_8 == 8

\* base64 of the Blake2b digest of the SQL text, cut to 16 characters.
QueryCodes ==
    {SubSeq(digest, 1, 16) : digest \in
        {<<"S", "X", "7", "2", "H", "z", "q", "F", "z", "1", "Q", "i", "j", "4", "b", "P", "w", "A">>,
         <<"8", "q", "J", "k", "s", "k", "a", "F", "5", "y", "X", "a", "Z", "3", "X", "M", "k", "g">>,
         <<"a", "+", "9", "/", "R", "t", "0", "u", "V", "+", "e", "3", "n", "L", "c", "D", "x", "Q">>}}

\* The Debug form of a DateTime<Utc>, 2021-09-23T19:25:49.633392315Z, as
\* its parts between dashes.
Timestamps == {<<2021, 9, "23T19:25:49.633392315Z">>}

\* format!("{}-{}-{:?}", query_code, plan_index, timestamp)
function_name(query_code, node_idx, timestamp) == <<query_code, node_idx>> \o timestamp

\* Mutant of Successor: the parent is always targeted as a single function.
SuccessorAlwaysLambda(name, concurrency) == [kind |-> "Lambda", name |-> name, size |-> 1]

\* The successor of the children of a stage with this name and concurrency.
Successor(name, concurrency) ==
    IF concurrency = 1
    THEN [kind |-> "Group", name |-> name, size |-> CONCURRENCY_8]
    ELSE [kind |-> "Lambda", name |-> name, size |-> 1]

\* The children of a node, in the order the walk visits them.
Children(parent) ==
    SelectSeq(ToSeq([c \in 1..(flow.n - 1) |-> c], flow.n - 1),
              LAMBDA c : flow.parent[c] = parent)

FlowInit ==
    /\ StageIdle
    /\ ServicesIdle
    /\ \E n \in 1..MaxNodes :
       \E parent \in [1..(n - 1) -> 0..(n - 1)] :
       \E concurrency \in [0..(n - 1) -> {CONCURRENCY_1, CONCURRENCY_8}] :
       \E query_code \in QueryCodes, timestamp \in Timestamps :
          /\ \A c \in 1..(n - 1) : parent[c] < c
          /\ flow = [n |-> n, parent |-> parent, concurrency |-> concurrency,
                     query_code |-> query_code, timestamp |-> timestamp,
                     pc |-> "start", queue |-> <<>>, ctx |-> <<>>]
    /\ dispatch = None
    /\ plan = None
    /\ coordinator = None
    /\ process = None

\* The context of the root and the start of the walk.
BuildRoot ==
    /\ flow.pc = "start"
    /\ flow' = [flow EXCEPT
            !.pc = "walking",
            !.queue = <<0>>,
            !.ctx = [node \in {0} |->
                        [name |-> function_name(flow.query_code, 0, flow.timestamp),
                         next |-> [kind |-> "Sink", name |-> "Blackhole", size |-> 0]]]]
    /\ UNCHANGED <<stageVars, dispatch, plan, coordinator, process, serviceVars>>

\* One turn of the loop: the contexts of the children of the node at the
\* head of the queue.
BuildChildren ==
    /\ flow.pc = "walking"
    /\ flow.queue # <<>>
    /\ LET parent == Head(flow.queue)
           children == Children(parent)
           nodes == {children[k] : k \in DOMAIN children}
       IN  flow' = [flow EXCEPT
                !.queue = Tail(@) \o children,
                !.ctx = [node \in DOMAIN @ \cup nodes |->
                            IF node \in nodes
                            THEN [name |-> function_name(flow.query_code, node, flow.timestamp),
                                  next |-> Successor(@[parent].name, flow.concurrency[parent])]
                            ELSE @[node]]]
    /\ UNCHANGED <<stageVars, dispatch, plan, coordinator, process, serviceVars>>

\* The queue is empty: build_context returns ctx.
BuildReturn ==
    /\ flow.pc = "walking"
    /\ flow.queue = <<>>
    /\ flow' = [flow EXCEPT !.pc = "done"]
    /\ UNCHANGED <<stageVars, dispatch, plan, coordinator, process, serviceVars>>

FlowNext == BuildRoot \/ BuildChildren \/ BuildReturn

SpecFlow == FlowInit /\ [][FlowNext]_vars

\* C27: build_context returns one context per node of the DAG; the root
\* and only the root has successor Sink; the successor of any other stage
\* carries the name of its parent, as Group(parent, 8) exactly when the
\* parent's concurrency is 1 and as a single function otherwise.
C27_OneContextPerNode ==
    flow.pc = "done" =>
        /\ DOMAIN flow.ctx = 0..(flow.n - 1)
        /\ flow.ctx[0].next.kind = "Sink"
        /\ \A node \in 1..(flow.n - 1) :
              LET next == flow.ctx[node].next
                  parent == flow.parent[node]
              IN  /\ next.kind \in {"Group", "Lambda"}
                  /\ next.name = flow.ctx[parent].name
                  /\ next.kind = "Group" <=> flow.concurrency[parent] = 1
                  /\ next.kind = "Group" => next.size = 8

\* A chain like the one of an aggregation: the root with concurrency 1,
\* its child with concurrency 8, a grandchild.
C27_Witness ==
    /\ flow.pc = "done"
    /\ flow.n = 3
    /\ flow.parent[2] = 1
    /\ flow.ctx[1].next.kind = "Group"
    /\ flow.ctx[2].next.kind = "Lambda"

NameChars ==
    {"A", "B", "C", "D", "E", "F", "G", "H", "I", "J", "K", "L", "M",
     "N", "O", "P", "Q", "R", "S", "T", "U", "V", "W", "X", "Y", "Z",
     "a", "b", "c", "d", "e", "f", "g", "h", "i", "j", "k", "l", "m",
     "n", "o", "p", "q", "r", "s", "t", "u", "v", "w", "x", "y", "z",
     "0", "1", "2", "3", "4", "5", "6", "7", "8", "9", "_", "-"}

\* ^[A-Za-z0-9_\-]{1,16}-\d{2}(-\d{2})?$ on the parts of a name.
NameShape(name) ==
    /\ Len(name) \in {2, 3}
    /\ Len(name[1]) \in 1..16
    /\ \A k \in DOMAIN name[1] : name[1][k] \in NameChars
    /\ \A k \in 2..Len(name) : name[k] \in 0..99

\* C28: every function name is a query code of 1 to 16 characters of
\* [A-Za-z0-9_-], a dash, the two-digit plan index and at most a dash and a
\* two-digit group index; plan indices are distinct.  Refuted: the name ends
\* with the timestamp of the build, and the base64 query code can hold '+'
\* and '/'.
C28_NameShape ==
    /\ \A node \in DOMAIN flow.ctx : NameShape(flow.ctx[node].name)
    /\ \A a, b \in DOMAIN flow.ctx :
          a # b => flow.ctx[a].name[2] # flow.ctx[b].name[2]

(***************************************************************************)
(* The coordinator of the S3 benchmark (benchmarks/src/s3/main.rs:47-137): *)
(* it invokes the source function, waits for its response, and invokes     *)
(* the worker function named in the response.  A metadata map is a         *)
(* function from its keys to their values.                                 *)
(***************************************************************************)
\* What the source function can answer: function, bucket, key, uuid and
\* encoding of the data it wrote.
SourceResponses ==
    [function : {"worker-00", "worker-01"}, bucket : {"b1", "b2"}, key : {"k1", "k2"},
     uuid : {"u1", "u2"}, encoding : {"Zstd", "Snappy"}]

NoResponse ==
    [function |-> "none", bucket |-> "none", key |-> "none", uuid |-> "none",
     encoding |-> "none"]

CoordinatorInit ==
    /\ StageIdle
    /\ ServicesIdle
    /\ \E workers \in {"Lambda", "Group"} :
          coordinator = [pc |-> "start", workers |-> workers, sent |-> <<>>,
                         resp |-> NoResponse, result |-> "None"]
    /\ dispatch = None
    /\ plan = None
    /\ flow = None
    /\ process = None

\* main.rs:69-91: the invocation of the source function.
InvokeSourceFunction ==
    /\ coordinator.pc = "start"
    /\ coordinator' = [coordinator EXCEPT
            !.pc = "source",
            !.sent = Append(@,
                [function |-> "source", call |-> "RequestResponse",
                 datasource |-> "S3", uuid |-> "none", encoding |-> "none",
                 metadata |-> [k \in {"workers", "invocation_type"} |->
                                  IF k = "workers" THEN coordinator.workers ELSE "sync"]])]
    /\ UNCHANGED <<stageVars, dispatch, plan, flow, process, serviceVars>>

\* main.rs:92-124: the response of the source function arrived; the worker
\* it names is invoked with the coordinates, uuid and encoding it gave.
InvokeWorkerFunction ==
    /\ coordinator.pc = "source"
    /\ \E resp \in SourceResponses :
          coordinator' = [coordinator EXCEPT
                !.pc = "worker",
                !.resp = resp,
                !.sent = Append(@,
                    [function |-> resp.function, call |-> "RequestResponse",
                     datasource |-> "Payload", uuid |-> resp.uuid,
                     encoding |-> resp.encoding,
                     metadata |-> [k \in {"s3_bucket", "s3_key"} |->
                                      IF k = "s3_bucket" THEN resp.bucket ELSE resp.key]])]
    /\ UNCHANGED <<stageVars, dispatch, plan, flow, process, serviceVars>>

\* An invocation fails or comes back without a payload (the ? and the
\* expect of main.rs:92-94 and 125-127): the benchmark ends there.
InvocationFails ==
    /\ coordinator.pc \in {"source", "worker"}
    /\ coordinator' = [coordinator EXCEPT !.pc = "done", !.result = "Err"]
    /\ UNCHANGED <<stageVars, dispatch, plan, flow, process, serviceVars>>

\* main.rs:123-136: the response of the worker arrived.
WorkerResponds ==
    /\ coordinator.pc = "worker"
    /\ coordinator' = [coordinator EXCEPT !.pc = "done", !.result = "Ok"]
    /\ UNCHANGED <<stageVars, dispatch, plan, flow, process, serviceVars>>

CoordinatorNext ==
    \/ InvokeSourceFunction
    \/ InvokeWorkerFunction
    \/ InvocationFails
    \/ WorkerResponds

SpecCoordinator == CoordinatorInit /\ [][CoordinatorNext]_vars

\* C29: every invocation the coordinator issues carries a metadata map
\* with invocation_type, and the worker is invoked after the response of
\* the source function with its bucket, key, uuid and encoding.  Refuted:
\* the metadata of the worker invocation holds s3_bucket and s3_key only.
C29_MetadataCarriesInvocationType ==
    /\ \A i \in DOMAIN coordinator.sent :
          "invocation_type" \in DOMAIN coordinator.sent[i].metadata
    /\ Len(coordinator.sent) = 2 =>
          /\ coordinator.resp # NoResponse
          /\ coordinator.sent[2].function = coordinator.resp.function
          /\ coordinator.sent[2].metadata["s3_bucket"] = coordinator.resp.bucket
          /\ coordinator.sent[2].metadata["s3_key"] = coordinator.resp.key
          /\ coordinator.sent[2].uuid = coordinator.resp.uuid
          /\ coordinator.sent[2].encoding = coordinator.resp.encoding

(***************************************************************************)
(* The process of the generic function (src/function/src/aws/lambda.rs):   *)
(* INIT, a std::sync::Once, and the static EXECUTION_CONTEXT, both living  *)
(* across the invocations the runtime hands to handler one after another.  *)
(***************************************************************************)
MaxInvocations == 3

\* The values of the environment entry: a marshalled context, or no entry.
EnvContexts == {"hello", "world", "other"}

\* The events of the invocations.
JsonEvents == {"db", "net"}

\* Mutant of call_once: the closure runs at every call.
call_always(once) == once # "poisoned"

\* INIT.call_once(f) runs f when no call has completed yet; a panic of f
\* poisons INIT and every later call_once panics.
call_once(once) == once = "incomplete"

ProcessInit ==
    /\ StageIdle
    /\ ServicesIdle
    /\ \E env \in EnvContexts \cup {"unset"} :
          process = [env |-> env, INIT |-> "incomplete",
                     EXECUTION_CONTEXT |-> "Uninitialized",
                     calls |-> 0, built |-> <<>>, runs |-> <<>>]
    /\ dispatch = None
    /\ plan = None
    /\ flow = None
    /\ coordinator = None

\* The environment entry is set anew (std::env::set_var).
SetEnv ==
    /\ \E env \in EnvContexts \cup {"unset"} :
          /\ env # process.env
          /\ process' = [process EXCEPT !.env = env]
    /\ UNCHANGED <<stageVars, dispatch, plan, flow, coordinator, serviceVars>>

\* One invocation of handler (lambda.rs:120-131): init_exec_context!, then
\* the plan runs with the context it yields.  A panic ends the invocation
\* before it runs.
HandlerInvocation ==
    /\ process.calls < MaxInvocations
    /\ \E event \in JsonEvents :
       LET call == process.calls + 1
           init == call_once(process.INIT)
           panics == process.INIT = "poisoned" \/ (init /\ process.env = "unset")
           context == IF init /\ ~panics THEN process.env ELSE process.EXECUTION_CONTEXT
       IN  process' = [process EXCEPT
                !.calls = call,
                !.INIT = IF panics THEN "poisoned" ELSE "complete",
                !.EXECUTION_CONTEXT = context,
                !.built = IF init /\ ~panics THEN Append(@, call) ELSE @,
                !.runs = IF panics \/ context = "Uninitialized"
                         THEN @
                         ELSE Append(@, [context |-> context, event |-> event])]
    /\ UNCHANGED <<stageVars, dispatch, plan, flow, coordinator, serviceVars>>

ProcessNext == SetEnv \/ HandlerInvocation

SpecProcess == ProcessInit /\ [][ProcessNext]_vars

\* C30: the context is built from the environment at most once, by the
\* first invocation, and exactly once as soon as an invocation has run;
\* every invocation runs with that context, whatever the environment entry
\* has become, and none with an uninitialized one.
C30_ContextBuiltOnce ==
    /\ Len(process.built) <= 1
    /\ process.built # <<>> => process.built[1] = 1
    /\ process.runs # <<>> => Len(process.built) = 1
    /\ \A i \in DOMAIN process.runs :
          /\ process.runs[i].context \in EnvContexts
          /\ process.runs[i].context = process.runs[1].context
          /\ process.runs[i].context = process.EXECUTION_CONTEXT

\* Three invocations have run with the context of the first although the
\* environment entry is another one now.
C30_Witness ==
    /\ Len(process.runs) = 3
    /\ process.env # process.runs[1].context
    /\ process.env \in EnvContexts

(***************************************************************************)
(* The source function (lambda.rs:67-108): one invocation per Kinesis      *)
(* event.  An event is the sequence of its records, a record the number of *)
(* rows its data holds.                                                    *)
(***************************************************************************)
MaxRecords == 2

KinesisEvents ==
    UNION {{ToSeq(f, n) : f \in [1..n -> 0..1]} : n \in 0..MaxRecords}

\* kinesis::to_batch: the schema is inferred from records[0], which panics
\* on an event without a record; the rows of all records are then read
\* into batches (one here), none when there is no row.
to_batch(event) ==
    [panics |-> event = <<>>,
     batches |-> IF SumBytes(event) = 0 THEN <<>> ELSE << [rows |-> SumBytes(event)] >>]

\* UuidBuilder::new(&ctx.name, 1).next(): the first packet of a window of
\* one, under an id made of the query code of the name, a time and a nonce.
SourceUuid(name) == [qid |-> <<name[1], "ts", "nonce">>, seq_num |-> 0, seq_len |-> 1]

NoAnswer == [outcome |-> "None", packets |-> <<>>]

source_handler(name, event, strategy, executes) ==
    LET batch == to_batch(event).batches
    IN  IF to_batch(event).panics THEN [NoAnswer EXCEPT !.outcome = "Panic"]
        ELSE IF batch = <<>> THEN [NoAnswer EXCEPT !.outcome = "Err"]
        ELSE IF strategy = "Distributed" THEN [NoAnswer EXCEPT !.outcome = "Panic"]
        ELSE IF ~executes THEN [NoAnswer EXCEPT !.outcome = "Err"]
        ELSE [outcome |-> "Ok",
              packets |-> << to_payload(collect(<<batch>>, 1, {})[1], SourceUuid(name)) >>]

IngestInit ==
    /\ StageIdle
    /\ dispatch = None
    /\ plan = None
    /\ flow = None
    /\ coordinator = None
    /\ process = None
    /\ \E name \in Names :
          ingest = [name |-> name, calls |-> 0, event |-> <<>>, strategy |-> "None",
                    answer |-> NoAnswer, emitted |-> 0]
    /\ codec = None
    /\ bucket = None
    /\ siblings = None

SourceInvocation ==
    /\ ingest.calls < MaxInvocations
    /\ \E event \in KinesisEvents, strategy \in {"Centralized", "Distributed"},
          executes \in BOOLEAN :
          LET answer == source_handler(ingest.name, event, strategy, executes)
          IN  ingest' = [ingest EXCEPT
                    !.calls = @ + 1,
                    !.event = event,
                    !.strategy = strategy,
                    !.answer = answer,
                    !.emitted = @ + Len(answer.packets)]
    /\ UNCHANGED <<stageVars, dispatch, plan, flow, coordinator, process,
                   codec, bucket, siblings>>

SpecIngest == IngestInit /\ [][SourceInvocation]_vars

\* C31: in centralized mode the source handler answers the events it got
\* with one packet whose uuid has seq_num 0, seq_len 1 and an id holding
\* the query code of the function's name; without an input record it
\* returns an error and emits nothing.  Refuted: an event without a record
\* makes to_batch panic before the check for an empty input.
C31_SourceEmitsOnePacket ==
    (ingest.calls > 0 /\ ingest.strategy = "Centralized") =>
        /\ ingest.answer.outcome = "Ok" =>
              /\ Len(ingest.answer.packets) = 1
              /\ ingest.answer.packets[1].uuid.seq_num = 0
              /\ ingest.answer.packets[1].uuid.seq_len = 1
              /\ ingest.answer.packets[1].uuid.qid[1] = ingest.name[1]
        /\ SumBytes(ingest.event) = 0 =>
              /\ ingest.answer.outcome = "Err"
              /\ ingest.answer.packets = <<>>

\* C35: a stage wired to a Group successor persists under the key prefix
\* the successor scans: its own plan index + 1 with the shuffle id it
\* assigns, against the plan index of the aggregator's name with the
\* shuffle id of the packet.  Refuted: build_context names the aggregator
\* by a node index below the one of the stage that feeds it.
C35_PersistPrefixMatchesScan ==
    flow.pc = "done" =>
        \A node \in 1..(flow.n - 1) :
            flow.ctx[node].next.kind = "Group" =>
                \A k \in 1..MaxShuffle :
                    LET sent == Packet(flow.query_code, k, 1, 1, NoMetadata)
                        key == StateKey(flow.ctx[node], k, sent)
                    IN  <<key[1], key[2]>> = s3_key_prefix(flow.ctx[flow.parent[node]], sent)

\* What the function answers to the last of events when they arrive one
\* after the other, each invocation finding what the one before left.
RECURSIVE Arrive(_, _, _, _, _, _)
Arrive(c, ar, proc, st, events, io) ==
    LET h == handler(c, ar, proc, st, Head(events), io)
    IN  IF Len(events) = 1 THEN h
        ELSE Arrive(c, h.arena, h.processed, st, Tail(events), io)

\* The packets of the window of ev, in the order of their seq_num.
WindowInOrder(ev) ==
    ToSeq([i \in 1..ev.uuid.seq_len |->
              Packet(ev.uuid.qid, ev.shuffle_id, i - 1, ev.uuid.seq_len, ev.metadata)],
          ev.uuid.seq_len)

\* C36: what an aggregator with a Group successor emits for a completed
\* window is what it emits when the packets of the window arrive in the
\* order of their seq_num, for some answer of the query engine: targets,
\* uuid, shuffle_id, metadata and data do not depend on the packet that
\* arrived last.  Refuted: the emitted uuid is the one of that packet.
C36_EmissionOrderIndependent ==
    (/\ InArena(last.event)
     /\ ctx.next = "Group"
     /\ last.status = Ready
     /\ last.executed
     /\ last.invoked # <<>>) =>
        \E io \in IoOutcomes :
            /\ io.fetchOk /\ io.listOk /\ io.readOk
            /\ Arrive(ctx, <<>>, {}, {}, WindowInOrder(last.event), io).invoked = last.invoked

\* C38: a packet that reaches an aggregator in-band and through recovery
\* is absorbed into its window at most once (a slot holds the batches of
\* one packet); an invocation that completes a window through recovery
\* inserts it into the processed set and runs the subplan on one copy of
\* each packet; and an invocation for a window in the processed set
\* obtains Processed, runs nothing and emits nothing, so that one
\* invocation at most obtains Ready for a window.
C38_RecoveredAbsorbedOnce ==
    [][/\ \A w \in DOMAIN arena' : \A i \in DOMAIN arena'[w].partitions :
             Len(arena'[w].partitions[i]) <= 1
       /\ (/\ InArena(last'.event)
           /\ last'.collected = NotReady
           /\ last'.status = Ready) =>
             /\ get_window_id(last'.event) \in processed'
             /\ \A i \in DOMAIN last'.taken : Len(last'.taken[i]) = 1
       /\ (InArena(last'.event) /\ last'.wasProcessed) =>
             /\ last'.status = Processed
             /\ ~last'.executed
             /\ ~Dispatched(last')
       /\ \A w \in WindowIds : readies'[w] <= 1]_vars

\* The first delivery of a window of two completed it through recovery,
\* the in-band copy of the recovered packet came later, and every later
\* delivery obtained Processed.
C38_Witness ==
    /\ upstream.seq_len = 2
    /\ InArena(last.event)
    /\ last.status = Processed
    /\ log[get_window_id(last.event)] = <<Ready, Processed>>
    /\ got[get_window_id(last.event)] = {0, 1}
    /\ store # {}

\* C39: a packet forwarded by a stage whose own input came through the
\* s3_bucket / s3_key path is, at a partitioned successor, the input of
\* the successor: the batches the packet carries, whatever the object
\* store answers, and not the object the forwarding stage read.  Refuted:
\* the packet carries the metadata of the incoming one, so the successor
\* reads that object again.
C39_SuccessorTakesForwarded ==
    (last.event.metadata.s3 /\ last.executed) =>
        \A i \in DOMAIN last.invoked :
        \A c \in {x \in Contexts : ~is_aggregate(x)} :
            LET sent == last.invoked[i].payload
                io == [fetchOk |-> TRUE, listOk |-> TRUE, readOk |-> TRUE,
                       nparts |-> 1, empties |-> {}]
                r == prepare_data_sources(c, <<>>, {}, {}, sent, io)
                unfetched == prepare_data_sources(c, <<>>, {}, {}, sent,
                                                  [io EXCEPT !.fetchOk = FALSE])
            IN  /\ r.status = Ready
                /\ unfetched = r
                /\ r.input = << <<to_record_batch(sent)[1]>>, <<to_record_batch(sent)[2]>> >>

(***************************************************************************)
(* Encoding::compress and Encoding::decompress (encoding.rs:57-100).  A    *)
(* byte string is a sequence of bits of the model; what a compressor       *)
(* returns is a frame of its own algorithm holding the bytes it can        *)
(* restore, and None hands the bytes on as they are.                       *)
(***************************************************************************)
MaxInput == 3

\* The capacity given to zstd::block::decompress, 10485760 bytes, on the
\* scale of MaxInput.
ZstdCapacity == 2

Encodings == {"Snappy", "Lz4", "Zlib", "Zstd", "None"}

ByteStrings == UNION {{ToSeq(f, n) : f \in [1..n -> 0..1]} : n \in 0..MaxInput}

compress(encoding, s) ==
    CASE encoding = "None" -> [outcome |-> "Ok", frame |-> "Raw", bytes |-> s]
      [] encoding = "Zlib" -> [outcome |-> "Panic", frame |-> "Raw", bytes |-> <<>>]
      [] OTHER -> [outcome |-> "Ok", frame |-> encoding, bytes |-> s]

\* Mutant of decompress_zstd: the output is not limited.
decompress_unlimited(of) == [outcome |-> "Ok", bytes |-> of]

\* zstd::block::decompress(s, 10485760): an error when the output is
\* larger than the capacity.
decompress_zstd(of) ==
    IF Len(of) > ZstdCapacity
    THEN [outcome |-> "Err", bytes |-> <<>>]
    ELSE [outcome |-> "Ok", bytes |-> of]

decompress(encoding, s) ==
    CASE encoding = "None" -> [outcome |-> "Ok", bytes |-> s.bytes]
      [] encoding = "Zlib" -> [outcome |-> "Panic", bytes |-> <<>>]
      [] OTHER ->
            IF s.frame # encoding THEN [outcome |-> "Err", bytes |-> <<>>]
            ELSE IF encoding = "Zstd" THEN decompress_zstd(s.bytes)
            ELSE [outcome |-> "Ok", bytes |-> s.bytes]

CodecInit ==
    /\ StageIdle
    /\ dispatch = None
    /\ plan = None
    /\ flow = None
    /\ coordinator = None
    /\ process = None
    /\ ingest = None
    /\ \E encoding \in Encodings, s \in ByteStrings :
          codec = [encoding |-> encoding, plain |-> s, pc |-> "plain",
                   wire |-> [outcome |-> "None", frame |-> "Raw", bytes |-> <<>>],
                   back |-> [outcome |-> "None", bytes |-> <<>>]]
    /\ bucket = None
    /\ siblings = None

Compress ==
    /\ codec.pc = "plain"
    /\ codec' = [codec EXCEPT !.pc = "compressed",
                              !.wire = compress(codec.encoding, codec.plain)]
    /\ UNCHANGED <<stageVars, dispatch, plan, flow, coordinator, process,
                   ingest, bucket, siblings>>

Decompress ==
    /\ codec.pc = "compressed"
    /\ codec.wire.outcome = "Ok"
    /\ codec' = [codec EXCEPT !.pc = "decompressed",
                              !.back = decompress(codec.encoding, codec.wire)]
    /\ UNCHANGED <<stageVars, dispatch, plan, flow, coordinator, process,
                   ingest, bucket, siblings>>

SpecCodec == CodecInit /\ [][Compress \/ Decompress]_vars

\* C32: for snappy, lz4, zstd and none, decompressing what compress
\* returned gives the bytes back.  Refuted for zstd: decompress fails on
\* an output above its fixed capacity.
C32_RoundTrip ==
    (codec.pc = "decompressed" /\ codec.encoding \in {"Snappy", "Lz4", "Zstd", "None"}) =>
        /\ codec.back.outcome = "Ok"
        /\ codec.back.bytes = codec.plain

(***************************************************************************)
(* The S3 helpers (aws/s3.rs:26-140) against one bucket shared by          *)
(* MaxCallers callers.  Every request to S3 is a step of its own: a        *)
(* caller of put_object_if_missing is suspended between its                *)
(* list_objects_v2 and its put_object, and the other callers run then.     *)
(***************************************************************************)
MaxCallers == 2

ObjectKeys == {<<"k">>, <<"k", "x">>}

Bodies == {<<1>>, <<2>>}

NoObject == [exists |-> FALSE, body |-> <<>>]

\* ListObjectsV2Request {prefix: Some(key), max_keys: Some(1)}: key_count.
key_count(objects, prefix) ==
    IF \E k \in ObjectKeys : /\ objects[k].exists
                             /\ Len(prefix) <= Len(k)
                             /\ SubSeq(k, 1, Len(prefix)) = prefix
    THEN 1 ELSE 0

\* Mutant of put_object: nothing is written.
put_nothing(objects, key, body) == objects

put_object(objects, key, body) ==
    [objects EXCEPT ![key] = [exists |-> TRUE, body |-> body]]

IdleCall ==
    [pc |-> "idle", op |-> "None", key |-> <<>>, body |-> <<>>, seen |-> 0,
     answer |-> [outcome |-> "None", body |-> <<>>]]

BucketInit ==
    /\ StageIdle
    /\ dispatch = None
    /\ plan = None
    /\ flow = None
    /\ coordinator = None
    /\ process = None
    /\ ingest = None
    /\ codec = None
    /\ \E objects \in [ObjectKeys -> {NoObject} \cup {[exists |-> TRUE, body |-> b] : b \in Bodies}] :
          bucket = [objects |-> objects, calls |-> [c \in 1..MaxCallers |-> IdleCall]]
    /\ siblings = None

\* put_object_if_missing up to the answer of list_objects_v2.
ListObjects(c) ==
    /\ bucket.calls[c].pc = "idle"
    /\ \E key \in ObjectKeys, body \in Bodies :
          bucket' = [bucket EXCEPT !.calls[c] =
                        [IdleCall EXCEPT !.pc = "listed", !.op = "put_object_if_missing",
                                         !.key = key, !.body = body,
                                         !.seen = key_count(bucket.objects, key)]]
    /\ UNCHANGED <<stageVars, dispatch, plan, flow, coordinator, process,
                   ingest, codec, siblings>>

\* put_object_if_missing from the answer on: put_object when key_count was 0.
PutIfNoneListed(c) ==
    /\ bucket.calls[c].pc = "listed"
    /\ bucket' = [bucket EXCEPT
          !.objects = IF bucket.calls[c].seen = 0
                      THEN put_object(@, bucket.calls[c].key, bucket.calls[c].body)
                      ELSE @,
          !.calls[c].pc = "done",
          !.calls[c].answer = [outcome |-> "Ok", body |-> <<>>]]
    /\ UNCHANGED <<stageVars, dispatch, plan, flow, coordinator, process,
                   ingest, codec, siblings>>

\* get_object: the request's result is unwrapped, so NoSuchKey panics.
GetObject(c) ==
    /\ bucket.calls[c].pc = "idle"
    /\ \E key \in ObjectKeys :
          bucket' = [bucket EXCEPT !.calls[c] =
                        [IdleCall EXCEPT
                            !.pc = "done", !.op = "get_object", !.key = key,
                            !.seen = IF bucket.objects[key].exists THEN 1 ELSE 0,
                            !.answer = IF bucket.objects[key].exists
                                       THEN [outcome |-> "Ok", body |-> bucket.objects[key].body]
                                       ELSE [outcome |-> "Panic", body |-> <<>>]]]
    /\ UNCHANGED <<stageVars, dispatch, plan, flow, coordinator, process,
                   ingest, codec, siblings>>

BucketNext == \E c \in 1..MaxCallers : ListObjects(c) \/ PutIfNoneListed(c) \/ GetObject(c)

SpecBucket == BucketInit /\ [][BucketNext]_vars

\* C33: a step of put_object_if_missing leaves every object that exists
\* as it is, also when two calls for the same key overlap.  Refuted: both
\* calls list the key as missing, and the second put replaces the body
\* the first one wrote.
C33_ExistingObjectKept ==
    [][\A c \in 1..MaxCallers :
          (bucket.calls[c].pc = "listed" /\ bucket'.calls[c].pc = "done") =>
              \A k \in ObjectKeys :
                  bucket.objects[k].exists => bucket'.objects[k] = bucket.objects[k]]_vars

\* C34: get_object for a key without an object answers Ok with an empty
\* body.  Refuted: the call panics.
C34_MissingKeyEmptyBody ==
    \A c \in 1..MaxCallers :
        (bucket.calls[c].op = "get_object" /\ bucket.calls[c].pc = "done" /\ bucket.calls[c].seen = 0) =>
            bucket.calls[c].answer = [outcome |-> "Ok", body |-> <<>>]

(***************************************************************************)
(* One window of an aggregator on the object-store backend, packet by      *)
(* packet: every sibling persists its packet (actor.rs:383-414, 487-522)   *)
(* and invokes the aggregator, in either order; the invocations in         *)
(* siblings.lost never arrive.  The persisted objects are taken to lie     *)
(* under the prefix the aggregator scans, and every request to the store   *)
(* succeeds.                                                               *)
(***************************************************************************)
SiblingPacket(i) ==
    Packet(siblings.qid, siblings.shuffle_id, i, upstream.seq_len,
           Metadata(FALSE, upstream.invocation_type))

SiblingObject(i) ==
    [bucket |-> siblings.qid,
     key |-> <<PlanIndex(ctx), get_shuffle_id(SiblingPacket(i)), i>>,
     body |-> SiblingPacket(i)]

RecoveryInit ==
    /\ ctx \in {c \in Contexts : is_aggregate(c) /\ c.backend = "S3"}
    /\ upstream \in [seq_len : 1..MaxSeqLen, shuffling : BOOLEAN, s3 : {FALSE},
                     invocation_type : {"absent"}]
    /\ arena = <<>>
    /\ processed = {}
    /\ store = {}
    /\ last = NoCall
    /\ log = [w \in WindowIds |-> <<>>]
    /\ readies = [w \in WindowIds |-> 0]
    /\ got = [w \in WindowIds |-> {}]
    /\ effective = {}
    /\ dispatch = None
    /\ plan = None
    /\ flow = None
    /\ coordinator = None
    /\ process = None
    /\ ingest = None
    /\ codec = None
    /\ bucket = None
    /\ \E q \in Qids, k \in InShuffles, lost \in SUBSET (0..(upstream.seq_len - 1)) :
          /\ lost # 0..(upstream.seq_len - 1)
          /\ siblings = [qid |-> q, shuffle_id |-> k, lost |-> lost]

\* Sibling i persists its packet.
SiblingPersist(i) ==
    /\ i < upstream.seq_len
    /\ SiblingObject(i) \notin store
    /\ store' = store \cup {SiblingObject(i)}
    /\ UNCHANGED <<ctx, upstream, arena, processed, last, log, readies, got, effective,
                   componentVars>>

\* The invocation of sibling i arrives at the aggregator.
SiblingInvoke(i) ==
    /\ i < upstream.seq_len
    /\ i \notin siblings.lost
    /\ i \notin got[get_window_id(SiblingPacket(i))]
    /\ \E io \in IoFor(SiblingPacket(i)) :
          /\ io.fetchOk /\ io.listOk /\ io.readOk
          /\ Invoke(SiblingPacket(i), io)

RecoveryNext == \E i \in 0..(MaxSeqLen - 1) : SiblingPersist(i) \/ SiblingInvoke(i)

\* What a step SiblingInvoke(i) shows of itself: the steps of SiblingInvoke(i)
\* are the steps of RecoveryNext that are steps of Arrived(i), and the one
\* is enabled when the other is.
Arrived(i) ==
    /\ i < upstream.seq_len
    /\ i \notin siblings.lost
    /\ i \notin got[get_window_id(SiblingPacket(i))]
    /\ got' = [got EXCEPT ![get_window_id(SiblingPacket(i))] = @ \cup {i}]

\* Every persist runs to its end and every invocation that is not lost is
\* handled: the tasks are spawned and joined, and Lambda runs what it
\* accepted.
SpecRecovery ==
    /\ RecoveryInit
    /\ [][RecoveryNext]_vars
    /\ \A i \in 0..(MaxSeqLen - 1) :
          WF_store(SiblingPersist(i)) /\ WF_got(Arrived(i))

\* C37: on the object-store backend, once the siblings emit all packets
\* of a window, every persist succeeds and at least one invocation
\* arrives, the aggregator eventually obtains Ready for the window,
\* whatever invocations are lost and however persists and invocations
\* interleave.  Refuted: the invocations that arrive may all be handled
\* before the persist of a packet whose invocation is lost.
C37_WindowEventuallyReady ==
    <>(readies[<<siblings.qid, get_shuffle_id(SiblingPacket(0))>>] > 0)

=============================================================================
